---- MODULE Spec2Model ----
(***************************************************************************)
(* The guru interface of FINUFFT (src/src/finufft.cpp): the four-call      *)
(* lifecycle finufft_makeplan -> finufft_setpts -> finufft_exec ->         *)
(* finufft_destroy on one finufft_plan struct, with the heap the plan's    *)
(* buffers live in and the batch loop of finufft_exec unrolled into one    *)
(* step per stage and per set of a batch.                                  *)
(***************************************************************************)
EXTENDS Integers, Sequences, FiniteSets, TLC

\* ------------------------------------------------------------------ bounds
MaxTransf  == 3      \* n_transf is drawn from 0..MaxTransf
MaxBlk     == 2      \* the caller's blksize is drawn from -1..MaxBlk
MaxThreads == 3      \* MY_OMP_GET_MAX_THREADS() is drawn from 1..MaxThreads
MaxSetPts  == 2      \* finufft_setpts calls per plan
MaxExec    == 2      \* finufft_exec calls per plan
MaxDestroy == 2      \* finufft_destroy calls per plan
MaxCalls   == 4      \* calls of all three kinds per plan
MaxBatches == MaxTransf + 1   \* batches followed in one finufft_exec: one
                              \* more than a loop that ends can start

\* --------------------------------------------------------- program constants
NULL == 0            \* the null pointer
WILD == 0 - 1        \* an indeterminate non-null pointer (never written)

\* return codes (defs.h): zero success, positive warning, negative error
WARN_EPS_TOO_SMALL       == 1
ERR_MAXNALLOC            == 0 - 2
ERR_SPREAD_PTS_OUT_RANGE == 0 - 4
ERR_UPSAMPFAC_TOO_SMALL  == 0 - 7
ERR_TYPE_NOTVALID        == 0 - 10
ERR_ALLOC                == 0 - 11
ERR_DIM_NOTVALID         == 0 - 12
ERR_NTRANSF_NOTVALID     == 0 - 13

MAX_USEFUL_NTHREADS == 2     \* defs.h, scaled down
MAX_NF              == 100   \* defs.h, scaled down: cap on nfTotal*transfPerBatch
NF_MAX_PER_DIM      == 8     \* cap on one fine-grid size, scaled down
nspread             == 2     \* kernel width w chosen by setup_spreader_for_nufft
upsampfac           == 2     \* opts.upsampfac (sigma = 2.0)

min(a, b) == IF a < b THEN a ELSE b
max(a, b) == IF a > b THEN a ELSE b

\* ------------------------------------------------------------ input domains
Types    == 0..4
Dims     == 0..4
NTransfs == 0..MaxTransf
BlkSizes == (0 - 1)..MaxBlk
Threads  == 1..MaxThreads
Modes    == {2, 5}
WideModes == {2, 3, 5}  \* mode counts tried with one transform per plan
IFlags   == {0, 1}     \* the boundary of iflag >= 0 and a value above it
NJs      == {0, 2}
SetupResults == {0, WARN_EPS_TOO_SMALL, ERR_UPSAMPFAC_TOO_SMALL}
SpreadResults == {0, ERR_SPREAD_PTS_OUT_RANGE}
Schemes  == {1, 2}     \* opts.spread_scheme as the caller sets it

VARIABLES
  p,         \* the finufft_plan struct
  written,   \* the fields of p that some call has assigned
  heap,      \* every allocation made so far: <<[kind, live, len, segs]>>, a
             \* pointer is an index
  phase,     \* "new", "failed", "planned", "destroyed", "crashed", "exited"
  ret,       \* [call, code] of the call that has just returned, with the
             \* arguments of a finufft_makeplan; Running inside finufft_exec
  pc,        \* position inside finufft_exec ("idle" outside)
  batchNum, nSetsThisBatch,   \* locals of finufft_exec
  pending,   \* sets of the running parallel-for that have not run yet
  ier_spreads,   \* pointer to the per-set error array of this finufft_exec
  ierVals,   \* its contents
  cpj,       \* pointer to the rephased weights of a type 3 finufft_exec
  innerNTransf,  \* n_transf stored through p->innerT2Plan (WILD: never stored)
  nested,    \* the OMP nested flag
  n_outerThreads,  \* num_threads of the last spread or interpolate driver
  wr,        \* what the sets of the running driver have written so far:
             \* {[set, what, lo, hi, val]}, what in "fw", "ier", "c", "f"
  log,       \* stages finished in the last finufft_exec: <<batch, stage>>, in order
  batches,   \* nSetsThisBatch of every batch started in the last finufft_exec
  errStage,  \* 1 + Len(log) when a sub-step first returned non-zero, else 0
  cRows, fRows,  \* rows of c and f used in the last finufft_exec: {<<batch, set, row>>}
  released,  \* releases made by finufft_destroy: <<[call, res, ptr, ok]>>
  nSetPts, nExec, nDestroy   \* calls made so far

vars == <<p, written, heap, phase, ret, pc, n_outerThreads, wr, batchNum, nSetsThisBatch, pending,
          ier_spreads, ierVals, cpj, innerNTransf, nested, log, batches, errStage, cRows, fRows, released,
          nSetPts, nExec, nDestroy>>

execVars == <<pc, n_outerThreads, wr, batchNum, nSetsThisBatch, pending, ier_spreads, ierVals,
              cpj, innerNTransf, nested, log, batches, errStage, cRows, fRows>>

\* ------------------------------------------------------------------- heap
Alloc(h, kind, len) ==
  Append(h, [kind |-> kind, live |-> TRUE, len |-> len, segs |-> <<>>])
\* the newest allocation is filled: segs are the pieces written, <<[lo, hi]>>
Fill(h, segs)  == [h EXCEPT ![Len(h)].segs = segs]
\* the newest allocation goes back to the allocator when it is freed, an
\* older one stays as a dead entry, so that a pointer to it dangles
Free(h, ptr)   == IF ptr \in 1..Len(h) /\ ptr = Len(h) /\ h[ptr].live
                    THEN SubSeq(h, 1, Len(h) - 1)
                  ELSE IF ptr \in 1..Len(h) THEN [h EXCEPT ![ptr].live = FALSE]
                  ELSE h
IsLive(h, ptr) == ptr \in 1..Len(h) /\ h[ptr].live
LiveKinds(h)   == {h[i].kind : i \in {j \in 1..Len(h) : h[j].live}}

\* ------------------------------------------------------ grid sizer (common.cpp)
RECURSIVE Only235(_)
Only235(n) == IF n <= 1 THEN n = 1
              ELSE IF n % 2 = 0 THEN Only235(n \div 2)
              ELSE IF n % 3 = 0 THEN Only235(n \div 3)
              ELSE IF n % 5 = 0 THEN Only235(n \div 5)
              ELSE FALSE

RECURSIVE next235even(_)
next235even(n) == IF n <= 2 THEN 2
                  ELSE IF n % 2 = 0 /\ Only235(n) THEN n
                  ELSE next235even(n + 1)

\* set_nf_type12: [nf, ier]
set_nf_type12(m) ==
  LET nf == next235even(max(2 * nspread, upsampfac * m))
  IN  IF nf > NF_MAX_PER_DIM THEN [nf |-> nf, ier |-> ERR_MAXNALLOC]
      ELSE [nf |-> nf, ier |-> 0]

\* --------------------------------------------------------------------- Init
\* the struct is the caller's and nothing has written it: its pointer fields
\* and isInnerT2 are either all zero or all non-zero garbage
UnwrittenPlan(g, b) ==
  [type |-> 0, dim |-> 0, n_transf |-> 0, tolOK |-> TRUE, fftsign |-> 0,
   blksize |-> 0, X |-> "garbage", nj |-> 0, didSort |-> 0,
   nf1 |-> 0, nf2 |-> 0, nf3 |-> 0, ms |-> 0, mt |-> 0, mu |-> 0,
   spread_direction |-> 0, spread_scheme |-> g,
   phiHat |-> g, fw |-> g, fftwPlan |-> g, sortIndices |-> g,
   isInnerT2 |-> b]

Init ==
  /\ \E b \in BOOLEAN : p = UnwrittenPlan(IF b THEN WILD ELSE NULL, b)
  /\ written = {}
  /\ heap = <<>>
  /\ phase = "new"
  /\ ret = [call |-> "none", code |-> 0]
  /\ pc = "idle"
  /\ batchNum = 0 /\ nSetsThisBatch = 0
  /\ pending = {}
  /\ ier_spreads = NULL
  /\ ierVals = <<>>
  /\ cpj = NULL
  /\ innerNTransf = WILD
  /\ nested = 0
  /\ n_outerThreads = 0
  /\ wr = {}
  /\ log = <<>>
  /\ batches = <<>>
  /\ errStage = 0
  /\ cRows = {} /\ fRows = {}
  /\ released = <<>>
  /\ nSetPts = 0 /\ nExec = 0 /\ nDestroy = 0

\* ----------------------------------------------------------- finufft_makeplan
\* a bug: the caller's blksize is stored as it is, zero included
PlanArgs_NoDefault(q, type, dim, n_transf, tolOK, iflag, blksize, nth) ==
  [q EXCEPT !.type = type, !.dim = dim, !.n_transf = n_transf, !.tolOK = tolOK,
            !.fftsign = IF iflag >= 0 THEN 1 ELSE 0 - 1,
            !.blksize = blksize,
            !.X = "NULL",
            !.nf1 = 1, !.nf2 = 1, !.nf3 = 1, !.ms = 1, !.mt = 1, !.mu = 1]

\* the assignments of lines 120-133
PlanArgs(q, type, dim, n_transf, tolOK, iflag, blksize, nth) ==
  [q EXCEPT !.type = type, !.dim = dim, !.n_transf = n_transf, !.tolOK = tolOK,
            !.fftsign = IF iflag >= 0 THEN 1 ELSE 0 - 1,
            !.blksize = IF blksize = 0 THEN min(nth, MAX_USEFUL_NTHREADS)
                        ELSE blksize,
            !.X = "NULL",
            !.nf1 = 1, !.nf2 = 1, !.nf3 = 1, !.ms = 1, !.mt = 1, !.mu = 1]

ArgFields == {"type", "dim", "n_transf", "tol", "fftsign", "blksize", "X",
              "nf1", "nf2", "nf3", "ms", "mt", "mu"}

\* a bug: dim is checked before type
ValidateArgs_DimFirst(type, dim, n_transf) ==
  IF dim # 1 /\ dim # 2 /\ dim # 3 THEN ERR_DIM_NOTVALID
  ELSE IF type # 1 /\ type # 2 /\ type # 3 THEN ERR_TYPE_NOTVALID
  ELSE IF n_transf < 1 THEN ERR_NTRANSF_NOTVALID
  ELSE 0

\* the first argument check that fails, 0 when none does (lines 97-108)
ValidateArgs(type, dim, n_transf) ==
  IF type # 1 /\ type # 2 /\ type # 3 THEN ERR_TYPE_NOTVALID
  ELSE IF dim # 1 /\ dim # 2 /\ dim # 3 THEN ERR_DIM_NOTVALID
  ELSE IF n_transf < 1 THEN ERR_NTRANSF_NOTVALID
  ELSE 0

\* a bug: all three entries of n_modes are read, whatever dim is
SetGrid_AllDims(q, dim, n_modes) ==
  LET r1 == set_nf_type12(n_modes[1])
      r2 == set_nf_type12(n_modes[2])
      r3 == set_nf_type12(n_modes[3])
      q3 == [q EXCEPT !.ms = n_modes[1], !.nf1 = r1.nf,
                      !.mt = n_modes[2], !.nf2 = r2.nf,
                      !.mu = n_modes[3], !.nf3 = r3.nf]
  IN  [q |-> q3, ier |-> IF r1.ier # 0 THEN r1.ier
                         ELSE IF r2.ier # 0 THEN r2.ier ELSE r3.ier]

\* lines 146-158: mode counts and fine-grid sizes, stopping at the first
\* dimension whose size is refused: [q, ier]
SetGrid(q, dim, n_modes) ==
  LET r1 == set_nf_type12(n_modes[1])
      q1 == [q EXCEPT !.ms = n_modes[1], !.nf1 = r1.nf]
      r2 == set_nf_type12(n_modes[2])
      q2 == [q1 EXCEPT !.mt = n_modes[2], !.nf2 = r2.nf]
      r3 == set_nf_type12(n_modes[3])
      q3 == [q2 EXCEPT !.mu = n_modes[3], !.nf3 = r3.nf]
  IN  IF r1.ier # 0 THEN [q |-> q1, ier |-> r1.ier]
      ELSE IF dim <= 1 THEN [q |-> q1, ier |-> 0]
      ELSE IF r2.ier # 0 THEN [q |-> q2, ier |-> r2.ier]
      ELSE IF dim <= 2 THEN [q |-> q2, ier |-> 0]
      ELSE [q |-> q3, ier |-> r3.ier]

\* lines 169-171
NphiHatOf(q, dim) ==
  (q.nf1 \div 2 + 1) + (IF dim > 1 THEN q.nf2 \div 2 + 1 ELSE 0)
                     + (IF dim > 2 THEN q.nf3 \div 2 + 1 ELSE 0)

\* lines 176-181: the piece of phiHat that onedim_fseries_kernel fills for
\* dimension d, nf_d/2 + 1 coefficients from the offset it is handed
PhiHatWrite(q, d) ==
  LET off == IF d = 1 THEN 0
             ELSE IF d = 2 THEN q.nf1 \div 2 + 1
             ELSE (q.nf1 \div 2 + 1) + (q.nf2 \div 2 + 1)
      nf  == IF d = 1 THEN q.nf1 ELSE IF d = 2 THEN q.nf2 ELSE q.nf3
  IN  [lo |-> off, hi |-> off + nf \div 2 + 1]

\* a bug: the number of slabs is left out of the size check
TooBig_OneSlab(nfTotal, transfPerBatch) == nfTotal > MAX_NF

\* line 186
TooBig(nfTotal, transfPerBatch) == nfTotal * transfPerBatch > MAX_NF

\* a bug: fw and the FFT are sized for one transform
TransfPerBatch_One(q) == 1

\* line 143
TransfPerBatch(q) == min(q.blksize, q.n_transf)

\* line 201: the FFT is planned in place on fw, howmany transforms, the
\* k-th on the nfTotal elements from (k-1)*nfTotal (idist = odist = nfTotal)
FftSlabs(howmany, nfTotal) ==
  [k \in 1..howmany |-> [lo |-> (k - 1) * nfTotal, hi |-> k * nfTotal]]

\* lines 136-205, after the arguments are stored: [q, h, w, code]
PlanType12(q0, h0, type, dim, n_modes, phiOK, fwOK) ==
  LET qd   == [q0 EXCEPT !.spread_direction = type]
      transfPerBatch == TransfPerBatch(qd)
      g    == SetGrid(qd, dim, n_modes)
      w1   == ArgFields \cup {"opts", "spopts"}
      hPhi == Fill(Alloc(h0, "phiHat", NphiHatOf(g.q, dim)),
                   [d \in 1..dim |-> PhiHatWrite(g.q, d)])
      qPhi == [g.q EXCEPT !.phiHat = Len(hPhi)]
      nfTotal == g.q.nf1 * g.q.nf2 * g.q.nf3
      fwGot == fwOK /\ nfTotal * transfPerBatch >= 0
      hFw  == Alloc(hPhi, "fw", nfTotal * transfPerBatch)
      qFw  == [qPhi EXCEPT !.fw = Len(hFw)]
      hN   == Free(Alloc(hFw, "n", dim), Len(hFw) + 1)     \* n_for_fftw, delete[]
      hFft == Fill(Alloc(hN, "fftwPlan", transfPerBatch),
                   FftSlabs(transfPerBatch, nfTotal))
      qFft == [qFw EXCEPT !.fftwPlan = Len(hFft)]
  IN  IF g.ier # 0 THEN [q |-> g.q, h |-> h0, w |-> w1, code |-> g.ier]
      ELSE IF ~phiOK THEN
        [q |-> [g.q EXCEPT !.phiHat = NULL], h |-> h0,
         w |-> w1 \cup {"phiHat"}, code |-> ERR_ALLOC]
      ELSE IF TooBig(nfTotal, transfPerBatch) THEN
        [q |-> qPhi, h |-> hPhi, w |-> w1 \cup {"phiHat"}, code |-> ERR_MAXNALLOC]
      ELSE IF ~fwGot THEN
        [q |-> [qPhi EXCEPT !.fw = NULL], h |-> Free(hPhi, qPhi.phiHat),
         w |-> w1 \cup {"phiHat", "fw"}, code |-> ERR_ALLOC]
      ELSE [q |-> qFft, h |-> hFft, w |-> w1 \cup {"phiHat", "fw", "fftwPlan"},
            code |-> 0]

\* lines 207-212
PlanType3(q0, h0) ==
  [q |-> [q0 EXCEPT !.fftwPlan = NULL], h |-> h0,
   w |-> ArgFields \cup {"opts", "spopts", "fftwPlan"}, code |-> 0]

\* the whole call: [q, h, w, code]
MakePlanResult(type, dim, n_modes, iflag, n_transf, ier_set, blksize, nth, phiOK, fwOK, scheme) ==
  LET v  == ValidateArgs(type, dim, n_transf)
      qo == [p EXCEPT !.spread_scheme = scheme]             \* p->opts = *opts
      qa == PlanArgs(qo, type, dim, n_transf, ier_set = 0, iflag, blksize, nth)
  IN  IF v # 0 THEN [q |-> p, h |-> heap, w |-> written, code |-> v]
      ELSE IF ier_set # 0 THEN
        [q |-> qo, h |-> heap, w |-> written \cup {"opts", "spopts"}, code |-> ier_set]
      ELSE IF type = 1 \/ type = 2
        THEN PlanType12(qa, heap, type, dim, n_modes, phiOK, fwOK)
        ELSE PlanType3(qa, heap)

\* the caller's n_modes: any mode counts when the call reads them (the
\* entries beyond dim are not read), the wider choice for a plan of one
\* transform
ModeVectors(type, dim, n_transf, ier_set, blksize, scheme) ==
  IF ValidateArgs(type, dim, n_transf) # 0 \/ ier_set # 0 \/ type = 3
    THEN {[i \in 1..3 |-> 1]}
  ELSE IF n_transf = 1 /\ blksize = 1 /\ scheme = 1
    THEN [1..3 -> WideModes]
  ELSE [1..3 -> Modes]

MakePlan ==
  /\ phase = "new"
  /\ \E type \in Types, dim \in Dims, n_transf \in NTransfs,
        iflag \in IFlags, ier_set \in SetupResults, blksize \in BlkSizes,
        nth \in Threads, phiOK \in BOOLEAN, fwOK \in BOOLEAN,
        scheme \in Schemes :
       \E n_modes \in ModeVectors(type, dim, n_transf, ier_set, blksize, scheme) :
         LET r == MakePlanResult(type, dim, n_modes, iflag, n_transf, ier_set,
                                 blksize, nth, phiOK, fwOK, scheme)
         IN  /\ p' = r.q
             /\ heap' = r.h
             /\ written' = r.w
             /\ ret' = [call |-> "makeplan", code |-> r.code, type |-> type,
                        dim |-> dim, n_transf |-> n_transf, blksize |-> blksize,
                        nth |-> nth, ier_set |-> ier_set, n_modes |-> n_modes]
             /\ phase' = IF r.code = 0 THEN "planned" ELSE "failed"
  /\ UNCHANGED <<execVars, released, nSetPts, nExec, nDestroy>>

\* the locals of a finufft_exec that has returned are gone, and the record
\* of what it did is dropped when the next call on the plan starts
ForgetExec ==
  /\ batchNum' = 0 /\ nSetsThisBatch' = 0
  /\ ier_spreads' = NULL /\ ierVals' = <<>> /\ cpj' = NULL
  /\ log' = <<>> /\ batches' = <<>> /\ errStage' = 0
  /\ cRows' = {} /\ fRows' = {}
  /\ n_outerThreads' = 0 /\ wr' = {}
  /\ UNCHANGED <<pc, pending, innerNTransf, nested>>

\* ------------------------------------------------------------- finufft_setpts
\* spreadsort (spreadinterp.cpp): whether the points were sorted; nothing is
\* sorted when there are no points
spreadsort(nj) == IF nj = 0 THEN 0 ELSE 1

\* spreadcheck refuses the points (ier_check # 0), or the sort index is
\* allocated over the old pointer and the user's arrays are bound
SetPts ==
  /\ phase = "planned" /\ pc = "idle"
  /\ nSetPts < MaxSetPts /\ nSetPts + nExec + nDestroy < MaxCalls
  /\ nSetPts' = nSetPts + 1
  /\ \E nj \in NJs, ier_check \in SpreadResults, sortOK \in BOOLEAN :
       LET q1 == [p EXCEPT !.nj = nj]
           didSort == spreadsort(nj)
           h1 == Alloc(heap, "sortIndices", nj)
       IN  IF p.type # 3 THEN
             IF ier_check # 0 THEN
               /\ sortOK
               /\ p' = q1 /\ written' = written \cup {"nj"}
               /\ heap' = heap /\ phase' = phase
               /\ ret' = [call |-> "setpts", code |-> ier_check]
             ELSE IF ~sortOK THEN      \* indexSort writes through NULL
               /\ p' = [q1 EXCEPT !.sortIndices = NULL]
               /\ written' = written \cup {"nj", "sortIndices"}
               /\ heap' = heap /\ phase' = "crashed"
               /\ ret' = ret
             ELSE
               /\ p' = [q1 EXCEPT !.sortIndices = Len(h1), !.didSort = didSort,
                                  !.X = "xj"]
               /\ written' = written \cup {"nj", "sortIndices", "didSort", "X"}
               /\ heap' = h1 /\ phase' = phase
               /\ ret' = [call |-> "setpts", code |-> 0]
           ELSE
             /\ ier_check = 0 /\ sortOK
             /\ p' = q1 /\ written' = written \cup {"nj"}
             /\ heap' = heap /\ phase' = phase
             /\ ret' = [call |-> "setpts", code |-> 0]
  /\ ForgetExec
  /\ UNCHANGED <<released, nExec, nDestroy>>

\* --------------------------------------------------------------- finufft_exec
PointsSet == IF p.type = 3 THEN nSetPts > 0 ELSE p.X = "xj"

Sets(n) == 0..(n - 1)

\* a bug: the last batch is not shortened
NSets_NoMin(q, b) == q.blksize

\* line 479 and line 554
NSets(q, b) == min(q.n_transf - b * q.blksize, q.blksize)

\* a bug: the batch loop stops one batch early
LoopTest_OffByOne(q, b) == (b + 1) * q.blksize < q.n_transf

\* the test of the batch loop (lines 477 and 549)
LoopTest(q, b) == b * q.blksize < q.n_transf

\* the order of the stages of one batch (lines 481-518 and 556-585); "loop"
\* is the increment and test of the batch loop
FirstStage(type) ==
  IF type = 1 THEN "spread" ELSE IF type = 2 THEN "deconv" ELSE "prephase"

NextStage_FftLast(type, stage) ==     \* a bug: type 1 deconvolves before the FFT
  IF type = 1 THEN
    (IF stage = "spread" THEN "deconv" ELSE IF stage = "deconv" THEN "fft" ELSE "loop")
  ELSE IF type = 2 THEN
    (IF stage = "deconv" THEN "fft" ELSE IF stage = "fft" THEN "interp" ELSE "loop")
  ELSE
    (IF stage = "prephase" THEN "spread" ELSE IF stage = "spread" THEN "inner"
     ELSE IF stage = "inner" THEN "t3deconv" ELSE "loop")

NextStage(type, stage) ==
  IF type = 1 THEN
    (IF stage = "spread" THEN "fft" ELSE IF stage = "fft" THEN "deconv" ELSE "loop")
  ELSE IF type = 2 THEN
    (IF stage = "deconv" THEN "fft" ELSE IF stage = "fft" THEN "interp" ELSE "loop")
  ELSE
    (IF stage = "prephase" THEN "spread" ELSE IF stage = "spread" THEN "inner"
     ELSE IF stage = "inner" THEN "t3deconv" ELSE "loop")

\* lines 265-268: the num_threads clause of the loop of spreadAllSetsInBatch
SpreadOuterThreads(q, n) == IF q.spread_scheme = 1 THEN n ELSE 0
\* lines 306-311: the num_threads clause of the loop of interpAllSetsInBatch
InterpOuterThreads(q, n) == IF q.spread_scheme # 0 THEN n ELSE 0

\* a bug: deconvolveInParallel switches nesting on as well
Enter_NestInDeconv(stage, n, nest) ==
  /\ pc' = stage
  /\ wr' = {}
  /\ n_outerThreads' = IF stage = "spread" THEN SpreadOuterThreads(p, n)
                       ELSE IF stage = "interp" THEN InterpOuterThreads(p, n)
                       ELSE n_outerThreads
  /\ pending' = IF stage \in {"spread", "deconv", "interp"} THEN Sets(n) ELSE {}
  /\ nested' = IF stage \in {"spread", "interp", "deconv"} THEN 1 ELSE nest

\* a stage that loops over the sets of the batch starts with all of them to
\* do; the spread and interpolate drivers switch nesting on (lines 271, 313)
Enter(stage, n, nest) ==
  /\ pc' = stage
  /\ wr' = {}
  /\ n_outerThreads' = IF stage = "spread" THEN SpreadOuterThreads(p, n)
                       ELSE IF stage = "interp" THEN InterpOuterThreads(p, n)
                       ELSE n_outerThreads
  /\ pending' = IF stage \in {"spread", "deconv", "interp"} THEN Sets(n) ELSE {}
  /\ nested' = IF stage \in {"spread", "interp"} THEN 1 ELSE nest

Running == [call |-> "none", code |-> 0]

\* leave finufft_exec with a return value
Return(code) ==
  /\ pc' = "idle" /\ UNCHANGED n_outerThreads
  /\ ret' = [call |-> "exec", code |-> code]
  /\ pending' = {}

Crash ==
  /\ phase' = "crashed"
  /\ pc' = "idle" /\ UNCHANGED n_outerThreads
  /\ pending' = {}

\* lines 473 and 538-542: the scratch arrays
ExecBegin ==
  /\ phase = "planned" /\ pc = "idle" /\ PointsSet
  /\ nExec < MaxExec /\ nSetPts + nExec + nDestroy < MaxCalls
  /\ nExec' = nExec + 1
  /\ \E ierOK \in BOOLEAN, cpjOK \in BOOLEAN :
       LET ierGot == ierOK /\ p.blksize >= 0
           h1 == IF ierGot THEN Alloc(heap, "ier_spreads", p.blksize) ELSE heap
           cpjGot == cpjOK /\ p.nj * p.blksize >= 0
           h2 == IF cpjGot THEN Alloc(h1, "cpj", p.nj * p.blksize) ELSE h1
       IN  /\ ier_spreads' = IF ierGot THEN Len(h1) ELSE NULL
           /\ ierVals' = IF ierGot THEN [i \in Sets(p.blksize) |-> 0] ELSE <<>>
           /\ batchNum' = 0 /\ nSetsThisBatch' = 0
           /\ log' = <<>> /\ batches' = <<>> /\ errStage' = 0
           /\ n_outerThreads' = 0 /\ wr' = {}
           /\ cRows' = {} /\ fRows' = {}
           /\ IF p.type # 3 THEN
                /\ cpjOK
                /\ heap' = h1 /\ cpj' = NULL
                /\ pc' = "loop" /\ ret' = Running /\ pending' = {}
              ELSE IF ~cpjGot THEN
                /\ heap' = h1 /\ cpj' = NULL
                /\ pc' = "idle" /\ pending' = {}
                /\ ret' = [call |-> "exec", code |-> ERR_ALLOC]
              ELSE
                /\ heap' = h2 /\ cpj' = Len(h2)
                /\ pc' = "loop" /\ ret' = Running /\ pending' = {}
  /\ UNCHANGED <<p, written, phase, innerNTransf, nested, released, nSetPts,
                 nDestroy>>

\* lines 477-479 and 549-554: the loop test, then the first stage of a batch
\* or the exit of lines 595-599
LoopHead ==
  /\ pc = "loop"
  /\ LoopTest(p, batchNum) => Len(batches) < MaxBatches
  /\ IF LoopTest(p, batchNum) THEN
       /\ nSetsThisBatch' = NSets(p, batchNum)
       /\ batches' = Append(batches, NSets(p, batchNum))
       /\ Enter(FirstStage(p.type), NSets(p, batchNum), nested)
       /\ UNCHANGED <<heap, ret>>
     ELSE
       /\ heap' = Free(IF p.type = 3 THEN Free(heap, cpj) ELSE heap, ier_spreads)
       /\ Return(0)
       /\ UNCHANGED <<nSetsThisBatch, batches, nested, wr>>
  /\ UNCHANGED <<p, written, phase, batchNum, ier_spreads, ierVals, cpj,
                 innerNTransf, log, errStage, cRows, fRows, released, nSetPts,
                 nExec, nDestroy>>

\* a bug: the third dimension's coefficients are looked up after two
\* pieces of the first dimension's length
PhiHatRead_Nf1Twice(q, d) ==
  IF d = 1 THEN 0
  ELSE IF d = 2 THEN q.nf1 \div 2 + 1
  ELSE (q.nf1 \div 2 + 1) + (q.nf1 \div 2 + 1)

\* lines 347-351: where deconvolveInParallel looks for the coefficients of
\* dimension d (phiHat1, phiHat2, phiHat3 as offsets into p->phiHat)
PhiHatRead(q, d) ==
  IF d = 1 THEN 0
  ELSE IF d = 2 THEN q.nf1 \div 2 + 1
  ELSE (q.nf1 \div 2 + 1) + (q.nf2 \div 2 + 1)

\* the row of the user array c that set i uses (lines 280-285, 323-328)
SpreadRow(i)  == IF p.type = 3 THEN i ELSE i + batchNum * p.blksize
InterpRow(i)  == IF p.isInnerT2 THEN i ELSE i + batchNum * p.blksize
\* the row of fk that set i uses (lines 363-368)
DeconvRow(i)  == IF p.isInnerT2 THEN i ELSE i + batchNum * p.blksize

\* the slab of fw that set i uses: fwStart = p->fw + fwRowSize*i (lines 276,
\* 319, 370), fwRowSize elements long
FwSlab_Shared(q, i) ==      \* a bug: every set uses the first slab
  [what |-> "fw", lo |-> 0, hi |-> q.nf1 * q.nf2 * q.nf3]

FwSlab(q, i) ==
  [what |-> "fw", lo |-> i * (q.nf1 * q.nf2 * q.nf3),
                  hi |-> (i + 1) * (q.nf1 * q.nf2 * q.nf3)]

\* one row of a user array, counted in rows
UserRow(what, row) == [what |-> what, lo |-> row, hi |-> row + 1]

\* the slot of the error array that set i writes (lines 292, 336)
IerSlot(i) == i

Wrote(i, loc, val) ==
  [set |-> i, what |-> loc.what, lo |-> loc.lo, hi |-> loc.hi, val |-> val]

\* lines 291-292 and 335-336: the error slot of set i is written only when
\* the call on set i returned non-zero
StoreIer(i, ier) ==
  /\ errStage' = IF ier # 0 /\ errStage = 0 THEN Len(log) + 1 ELSE errStage
  /\ IF ier = 0 THEN UNCHANGED <<ierVals, phase, pc, n_outerThreads>> /\ pending' = pending \ {i}
     ELSE IF ier_spreads = NULL THEN Crash /\ UNCHANGED ierVals
     ELSE /\ ierVals' = [ierVals EXCEPT ![IerSlot(i)] = ier]
          /\ pending' = pending \ {i}
          /\ UNCHANGED <<phase, pc, n_outerThreads>>

\* one iteration of the loop of spreadAllSetsInBatch (lines 273-293); a type
\* 3 plan's fw is never assigned, and spreading into it may stop the program
SpreadSet ==
  /\ pc = "spread"
  /\ \E i \in pending, ier \in SpreadResults, crash \in BOOLEAN :
       /\ cRows' = cRows \cup {<<batchNum, i, SpreadRow(i)>>}
       /\ wr' = wr \cup {Wrote(i, FwSlab(p, i), 0)}
                  \cup (IF ier # 0
                        THEN {Wrote(i, UserRow("ier", IerSlot(i)), ier)} ELSE {})
       /\ IF crash THEN /\ ~IsLive(heap, p.fw) /\ ier = 0
                        /\ Crash /\ UNCHANGED <<ierVals, errStage>>
          ELSE (IsLive(heap, p.fw) \/ p.fw = WILD) /\ StoreIer(i, ier)
  /\ UNCHANGED <<p, written, heap, ret, batchNum, nSetsThisBatch, ier_spreads,
                 cpj, innerNTransf, nested, log, batches, fRows, released,
                 nSetPts, nExec, nDestroy>>

\* the end of spreadAllSetsInBatch (line 294), then for type 1 the scan of
\* the error slots (lines 487-490)
SpreadJoin ==
  /\ pc = "spread" /\ pending = {}
  /\ log' = Append(log, <<batchNum, "spread">>)
  /\ LET bad == {i \in Sets(nSetsThisBatch) : ierVals[i] # 0}
         first == CHOOSE i \in bad : \A j \in bad : i <= j
     IN  IF p.type = 3 THEN
           Enter(NextStage(p.type, "spread"), nSetsThisBatch, 0)
           /\ UNCHANGED <<phase, ret>>
         ELSE IF nSetsThisBatch >= 1 /\ ier_spreads = NULL THEN
           Crash /\ nested' = 0 /\ UNCHANGED <<ret, wr>>
         ELSE IF bad # {} THEN
           Return(ierVals[first]) /\ nested' = 0 /\ UNCHANGED <<phase, wr>>
         ELSE
           Enter(NextStage(p.type, "spread"), nSetsThisBatch, 0)
           /\ UNCHANGED <<phase, ret>>
  /\ UNCHANGED <<p, written, heap, batchNum, nSetsThisBatch, ier_spreads,
                 ierVals, cpj, innerNTransf, batches, errStage, cRows, fRows,
                 released, nSetPts, nExec, nDestroy>>

\* the end of a stage that is not followed by a check: on to the next stage,
\* or to the next batch
Advance(stage, nest) ==
  /\ log' = Append(log, <<batchNum, stage>>)
  /\ Enter(NextStage(p.type, stage), nSetsThisBatch, nest)
  /\ batchNum' = IF NextStage(p.type, stage) = "loop" THEN batchNum + 1
                 ELSE batchNum

\* FFTW_EX (line 502)
FFT ==
  /\ pc = "fft"
  /\ Advance("fft", nested)
  /\ UNCHANGED <<p, written, heap, phase, ret, nSetsThisBatch,
                 ier_spreads, ierVals, cpj, innerNTransf, batches, errStage,
                 cRows, fRows, released, nSetPts, nExec, nDestroy>>

\* one iteration of the loop of deconvolveInParallel (lines 359-387)
DeconvSet ==
  /\ pc = "deconv"
  /\ \E i \in pending :
       /\ fRows' = fRows \cup {<<batchNum, i, DeconvRow(i)>>}
       /\ wr' = wr \cup {Wrote(i, IF p.spread_direction = 1
                                    THEN UserRow("f", DeconvRow(i))
                                    ELSE FwSlab(p, i), 0)}
       /\ pending' = pending \ {i}
  /\ UNCHANGED <<p, written, heap, phase, ret, pc, n_outerThreads, batchNum,
                 nSetsThisBatch, ier_spreads, ierVals, cpj, innerNTransf,
                 nested, log, batches, errStage, cRows, released, nSetPts,
                 nExec, nDestroy>>

\* the end of deconvolveInParallel (line 388)
DeconvJoin ==
  /\ pc = "deconv" /\ pending = {}
  /\ Advance("deconv", nested)
  /\ UNCHANGED <<p, written, heap, phase, ret, nSetsThisBatch,
                 ier_spreads, ierVals, cpj, innerNTransf, batches, errStage,
                 cRows, fRows, released, nSetPts, nExec, nDestroy>>

\* one iteration of the loop of interpAllSetsInBatch (lines 315-337)
InterpSet ==
  /\ pc = "interp"
  /\ \E i \in pending, ier \in SpreadResults :
       /\ cRows' = cRows \cup {<<batchNum, i, InterpRow(i)>>}
       /\ wr' = wr \cup {Wrote(i, UserRow("c", InterpRow(i)), 0)}
                  \cup (IF ier # 0
                        THEN {Wrote(i, UserRow("ier", IerSlot(i)), ier)} ELSE {})
       /\ StoreIer(i, ier)
  /\ UNCHANGED <<p, written, heap, ret, batchNum, nSetsThisBatch, ier_spreads,
                 cpj, innerNTransf, nested, log, batches, fRows, released,
                 nSetPts, nExec, nDestroy>>

\* the end of interpAllSetsInBatch (line 338) and of the batch (line 519)
InterpJoin ==
  /\ pc = "interp" /\ pending = {}
  /\ Advance("interp", 0)
  /\ UNCHANGED <<p, written, heap, phase, ret, nSetsThisBatch,
                 ier_spreads, ierVals, cpj, innerNTransf, batches, errStage,
                 cRows, fRows, released, nSetPts, nExec, nDestroy>>

\* type3PrePhaseInParallel (lines 393-423): reads p->X_orig, which no call
\* of this file assigns
T3Prephase ==
  /\ pc = "prephase"
  /\ \E crash \in BOOLEAN :
       IF crash THEN Crash /\ UNCHANGED <<nested, log, batchNum, wr>>
       ELSE Advance("prephase", nested) /\ UNCHANGED phase
  /\ UNCHANGED <<p, written, heap, ret, nSetsThisBatch, ier_spreads,
                 ierVals, cpj, innerNTransf, batches, errStage, cRows, fRows,
                 released, nSetPts, nExec, nDestroy>>

\* lines 553 and 571-580: the store through p->innerT2Plan, which no call of
\* this file assigns, and the inner finufft_exec on it
T3Inner ==
  /\ pc = "inner"
  /\ \E crash \in BOOLEAN, ier_t2 \in SpreadResults \cup {WARN_EPS_TOO_SMALL} :
       LET lastRound == (batchNum + 1) * p.blksize > p.n_transf IN
       IF crash THEN
         /\ ier_t2 = 0
         /\ Crash
         /\ UNCHANGED <<innerNTransf, log, errStage, nested, batchNum, wr>>
       ELSE
         /\ innerNTransf' = IF lastRound THEN nSetsThisBatch ELSE innerNTransf
         /\ errStage' = IF ier_t2 # 0 /\ errStage = 0 THEN Len(log) + 1
                        ELSE errStage
         /\ IF ier_t2 > 0                      \* exit(ier_t2)
              THEN /\ phase' = "exited" /\ pc' = "idle"
                   /\ UNCHANGED <<pending, nested, log, batchNum, n_outerThreads, wr>>
              ELSE Advance("inner", nested) /\ UNCHANGED phase
  /\ UNCHANGED <<p, written, heap, ret, nSetsThisBatch, ier_spreads,
                 ierVals, cpj, batches, cRows, fRows, released, nSetPts, nExec,
                 nDestroy>>

\* type3DeconvolveInParallel (lines 426-459): reads p->phiHat and p->s, which
\* no call of this file assigns for a type 3 plan
T3Deconv ==
  /\ pc = "t3deconv"
  /\ \E crash \in BOOLEAN :
       IF crash THEN Crash /\ UNCHANGED <<log, fRows, batchNum, nested, wr>>
       ELSE /\ fRows' = fRows \cup {<<batchNum, i, i + batchNum * p.blksize>> :
                                      i \in Sets(nSetsThisBatch)}
            /\ Advance("t3deconv", nested)
            /\ UNCHANGED phase
  /\ UNCHANGED <<p, written, heap, ret, nSetsThisBatch, ier_spreads, ierVals,
                 cpj, innerNTransf, batches, errStage, cRows, released, nSetPts,
                 nExec, nDestroy>>

\* ------------------------------------------------------------ finufft_destroy
DestroyOrder == <<"fftwPlan", "fw", "phiHat", "sortIndices">>

\* lines 607-614 from the k-th test on; a release of a pointer that is not a
\* live allocation either stops the program (crashAt = k) or goes unnoticed
RECURSIVE DestroyFrom(_, _, _, _)
DestroyFrom(k, h, rel, crashAt) ==
  IF k > Len(DestroyOrder) THEN [h |-> h, rel |-> rel, crashed |-> FALSE]
  ELSE LET ptr  == p[DestroyOrder[k]]
           ok   == IsLive(h, ptr)
           rel2 == Append(rel, [call |-> nDestroy + 1, res |-> DestroyOrder[k],
                                ptr |-> ptr, ok |-> ok])
       IN  IF ptr = NULL THEN DestroyFrom(k + 1, h, rel, crashAt)
           ELSE IF ~ok /\ crashAt = k THEN [h |-> h, rel |-> rel2, crashed |-> TRUE]
           ELSE DestroyFrom(k + 1, Free(h, ptr), rel2, crashAt)

Destroy ==
  /\ phase \in {"planned", "destroyed"} /\ pc = "idle"
  /\ nDestroy < MaxDestroy /\ nSetPts + nExec + nDestroy < MaxCalls
  /\ nDestroy' = nDestroy + 1
  /\ \E crashAt \in 0..Len(DestroyOrder) :
       LET r == DestroyFrom(1, heap, released, crashAt) IN
       /\ crashAt # 0 => r.crashed
       /\ heap' = r.h
       /\ released' = r.rel
       /\ phase' = IF r.crashed THEN "crashed" ELSE "destroyed"
       /\ ret' = IF r.crashed THEN ret ELSE [call |-> "destroy", code |-> 0]
  /\ ForgetExec
  /\ UNCHANGED <<p, written, nSetPts, nExec>>

\* ---------------------------------------------------------------------- Spec
Next ==
  \/ MakePlan
  \/ SetPts
  \/ ExecBegin
  \/ LoopHead
  \/ SpreadSet
  \/ SpreadJoin
  \/ FFT
  \/ DeconvSet
  \/ DeconvJoin
  \/ InterpSet
  \/ InterpJoin
  \/ T3Prephase
  \/ T3Inner
  \/ T3Deconv
  \/ Destroy

Spec == Init /\ [][Next]_vars

\* ==================================================================== claims
RECURSIVE SumSeq(_)
SumSeq(sq) == IF sq = <<>> THEN 0 ELSE sq[1] + SumSeq(Tail(sq))

ExecReturned(code) == pc = "idle" /\ phase = "planned" /\ ret.call = "exec"
                      /\ ret.code = code

ValidationCodes == {ERR_TYPE_NOTVALID, ERR_DIM_NOTVALID, ERR_NTRANSF_NOTVALID}

\* C1: finufft_makeplan returns ERR_TYPE_NOTVALID when type is not 1, 2 or 3,
\* otherwise ERR_DIM_NOTVALID when dim is not 1, 2 or 3, otherwise
\* ERR_NTRANSF_NOTVALID when n_transf < 1, and in these three cases it has
\* written no field of the plan and allocated nothing.
C1_ValidationBeforeWrites ==
  ret.call = "makeplan" =>
    /\ ret.type \notin {1, 2, 3} => ret.code = ERR_TYPE_NOTVALID
    /\ ret.type \in {1, 2, 3} /\ ret.dim \notin {1, 2, 3}
         => ret.code = ERR_DIM_NOTVALID
    /\ ret.type \in {1, 2, 3} /\ ret.dim \in {1, 2, 3} /\ ret.n_transf < 1
         => ret.code = ERR_NTRANSF_NOTVALID
    /\ ret.type \in {1, 2, 3} /\ ret.dim \in {1, 2, 3} /\ ret.n_transf >= 1
         => ret.code \notin ValidationCodes
    /\ ret.code \in ValidationCodes =>
         /\ written = {}
         /\ heap = <<>>
         /\ \E g \in {NULL, WILD}, b \in BOOLEAN : p = UnwrittenPlan(g, b)

C1_Witness ==
  /\ ret.call = "makeplan" /\ ret.code = ERR_NTRANSF_NOTVALID
  /\ ret.type = 2 /\ ret.dim = 3 /\ written = {}

\* C2: with n_transf >= 1 and blksize >= 1, every batch of finufft_exec has
\* nSetsThisBatch = min(n_transf - done, blksize), done being the sets of the
\* earlier batches; it is between 1 and blksize, equal to blksize in every
\* batch but the last, and the batches of a loop that ran to its exit sum to
\* n_transf.
C2_SumOfWork ==
  ("blksize" \in written /\ p.n_transf >= 1 /\ p.blksize >= 1) =>
    /\ \A k \in 1..Len(batches) :
         /\ batches[k] = min(p.n_transf - SumSeq(SubSeq(batches, 1, k - 1)),
                             p.blksize)
         /\ batches[k] >= 1 /\ batches[k] <= p.blksize
         /\ k < Len(batches) => batches[k] = p.blksize
    /\ ExecReturned(0) => SumSeq(batches) = p.n_transf

C2_Witness ==
  /\ ExecReturned(0) /\ Len(batches) = 2 /\ batches[2] < p.blksize
  /\ SumSeq(batches) = p.n_transf

\* C3: in a type 1 or 2 finufft_exec, set i of batch b uses row
\* b*blksize + i of c and of f; no row outside [0, n_transf) is used, and
\* when the call has returned 0 every row of [0, n_transf) was used by
\* exactly one (batch, set) pair.
C3_RowsClaim ==
  ("type" \in written /\ p.type \in {1, 2}) =>
    /\ \A t \in cRows \cup fRows :
         /\ t[3] = t[1] * p.blksize + t[2]
         /\ t[3] >= 0 /\ t[3] < p.n_transf
    /\ ExecReturned(0) =>
         \A r \in 0..(p.n_transf - 1) :
           /\ Cardinality({t \in cRows : t[3] = r}) = 1
           /\ Cardinality({t \in fRows : t[3] = r}) = 1

\* C4: in a type 1 or 2 finufft_exec the stages of every batch run in the
\* order spread, FFT, deconvolve (type 1) or deconvolve, FFT, interpolate
\* (type 2), one FFT per batch; a batch starts only when the batch before it
\* has finished its last stage, and the FFT of a batch runs only when every
\* set of the batch has been through the stage before it.
StageOrder(type) == IF type = 1 THEN <<"spread", "fft", "deconv">>
                    ELSE <<"deconv", "fft", "interp">>

C4_StageOrder ==
  ("type" \in written /\ p.type \in {1, 2}) =>
    /\ \A k \in 1..Len(log) :
         log[k] = <<(k - 1) \div 3, StageOrder(p.type)[((k - 1) % 3) + 1]>>
    /\ Len(batches) <= (Len(log) \div 3) + 1
    /\ ExecReturned(0) => Len(log) = 3 * Len(batches)
    /\ pc = "fft" => pending = {}
    /\ \A k \in 1..Len(log) :
         log[k][2] = "fft" =>
           {t[2] : t \in {u \in (IF p.type = 1 THEN cRows ELSE fRows) :
                            u[1] = log[k][1]}}
             = Sets(batches[log[k][1] + 1])

C4_Witness ==
  /\ p.type = 1 /\ ExecReturned(0) /\ Len(batches) = 2
  /\ log[5] = <<1, "fft">> /\ log[6] = <<1, "deconv">>

\* C5: once a sub-step of a batch has returned a non-zero code, finufft_exec
\* finishes no later stage, starts no later batch, and returns a non-zero
\* code.
C5_AbortClaim ==
  errStage # 0 =>
    /\ Len(log) <= errStage
    /\ ExecReturned(0) => FALSE

\* C6: when setup_spreader_for_nufft reports a positive warning code,
\* finufft_makeplan returns that code with the plan populated: the argument
\* fields are set and, for types 1 and 2, phiHat, fw and the FFT plan exist.
C6_WarningClaim ==
  (/\ ret.call = "makeplan"
   /\ ret.type \in {1, 2, 3} /\ ret.dim \in {1, 2, 3} /\ ret.n_transf >= 1
   /\ ret.ier_set > 0) =>
    /\ ret.code = ret.ier_set
    /\ ArgFields \subseteq written
    /\ ret.type \in {1, 2} =>
         /\ IsLive(heap, p.phiHat) /\ IsLive(heap, p.fw)
         /\ IsLive(heap, p.fftwPlan)

\* C7: when finufft_makeplan returns ERR_MAXNALLOC or ERR_ALLOC, no buffer
\* it allocated is still allocated.
C7_ReleaseOnErrorClaim ==
  (ret.call = "makeplan" /\ ret.code \in {ERR_MAXNALLOC, ERR_ALLOC}) =>
    \A i \in 1..Len(heap) : ~heap[i].live

\* C8: a second finufft_destroy on the same plan is a no-op: no FFT plan and
\* no buffer that a finufft_destroy has released is released again.
C8_IdempotentClaim ==
  \A j, k \in 1..Len(released) :
    (j < k /\ released[j].ok) => released[k].ptr # released[j].ptr

\* C9: finufft_destroy releases in the order FFT plan, fw, phiHat, sort
\* index, and after it has returned nothing that was allocated for the plan
\* is still allocated.
PlanKinds == {"fftwPlan", "fw", "phiHat", "sortIndices"}

OrderIndex(res) == CHOOSE k \in 1..Len(DestroyOrder) : DestroyOrder[k] = res

C9_ReleaseAllClaim ==
  /\ \A j, k \in 1..Len(released) :
       (j < k /\ released[j].call = released[k].call)
         => OrderIndex(released[j].res) < OrderIndex(released[k].res)
  /\ phase = "destroyed" => LiveKinds(heap) \cap PlanKinds = {}

\* C10 as stated: a caller's blksize of zero makes the plan's blksize
\* min(n_transf, MAX_USEFUL_NTHREADS), a non-zero one is stored as it is.
C10_Original ==
  (ret.call = "makeplan" /\ ret.code = 0) =>
    p.blksize = IF ret.blksize = 0 THEN min(ret.n_transf, MAX_USEFUL_NTHREADS)
                ELSE ret.blksize

\* C10 (amended): a caller's blksize of zero makes the plan's blksize
\* min(MY_OMP_GET_MAX_THREADS(), MAX_USEFUL_NTHREADS), whatever n_transf is;
\* a non-zero one is stored as it is.
C10_DefaultBlksize ==
  (ret.call = "makeplan" /\ "blksize" \in written) =>
    p.blksize = IF ret.blksize = 0 THEN min(ret.nth, MAX_USEFUL_NTHREADS)
                ELSE ret.blksize

C10_Witness ==
  /\ ret.call = "makeplan" /\ ret.code = 0
  /\ ret.blksize = 0 /\ ret.n_transf = 1 /\ ret.nth = 2 /\ p.blksize = 2

\* C11: a finufft_exec on a type 1 or 2 plan changes no field of the plan and
\* none of the plan's buffers (FFT plan, fw, phiHat, sort index) is allocated,
\* released or resized by it; every finufft_exec that returns 0, the first
\* and any later one, has run the same batches, ceil(n_transf/blksize) of
\* them with sizes blksize, ..., blksize, remainder, which sum to n_transf.
PlanBuffers(h) == {<<i, h[i]>> : i \in {j \in 1..Len(h) : h[j].kind \in PlanKinds}}

ExpectedBatches(q) ==
  [k \in 1..((q.n_transf + q.blksize - 1) \div q.blksize) |->
     min(q.n_transf - (k - 1) * q.blksize, q.blksize)]

C11_ExecFrame ==
  /\ []((ExecReturned(0) /\ p.type \in {1, 2}) =>
          /\ batches = ExpectedBatches(p)
          /\ SumSeq(batches) = p.n_transf)
  /\ [][("type" \in written /\ p.type \in {1, 2}
         /\ (pc # "idle" \/ pc' # "idle"))
        => (p' = p /\ written' = written
            /\ PlanBuffers(heap') = PlanBuffers(heap))]_vars

C11_Witness ==
  /\ ExecReturned(0) /\ p.type = 2 /\ nExec = 2
  /\ Len(batches) = 2 /\ batches[2] < batches[1]

\* C12: while the sets of a batch run in any order in spread, interpolate or
\* deconvolve, set i writes only slab [i*nf1*nf2*nf3, (i+1)*nf1*nf2*nf3) of
\* fw, slot i of the error array and one row of a user array; writes of two
\* different sets never overlap; and when all sets are done every set has
\* written its slab or row and every error code written is in the error
\* array, whatever the order was.
ParallelStages == {"spread", "deconv", "interp"}

Overlap(a, b) == a.what = b.what /\ a.lo < b.hi /\ b.lo < a.hi

C12_DisjointWrites ==
  (pc \in ParallelStages) =>
    /\ \A a \in wr :
         /\ a.set \in Sets(nSetsThisBatch) \ pending
         /\ a.what = "fw" => /\ a.lo = a.set * (p.nf1 * p.nf2 * p.nf3)
                             /\ a.hi = (a.set + 1) * (p.nf1 * p.nf2 * p.nf3)
         /\ a.what = "ier" => a.lo = a.set /\ a.hi = a.set + 1
         /\ a.what \in {"c", "f"} => a.hi = a.lo + 1
    /\ \A a, b \in wr : Overlap(a, b) => a.set = b.set
    /\ pending = {} =>
         /\ {a.set : a \in {b \in wr : b.what # "ier"}} = Sets(nSetsThisBatch)
         /\ \A a \in wr : a.what = "ier" => ierVals[a.lo] = a.val

C12_Witness ==
  /\ pc = "spread" /\ pending = {} /\ p.type = 1 /\ nSetsThisBatch = 2
  /\ Cardinality(wr) = 3 /\ ierVals[1] # 0 /\ ierVals[0] = 0

\* C13: the OMP nested flag is on only while spreadAllSetsInBatch or
\* interpAllSetsInBatch runs its loop over the sets of a batch; it is off in
\* every other stage and whenever finufft_exec has returned, with 0 or with
\* an error code.
C13_NestedOnlyInDrivers ==
  phase # "crashed" =>
    /\ nested = 1 => pc \in {"spread", "interp"}
    /\ pc \notin {"spread", "interp"} => nested = 0

C13_Witness ==
  /\ ExecReturned(ERR_SPREAD_PTS_OUT_RANGE) /\ p.type = 1 /\ nested = 0
  /\ log = <<<<0, "spread">>>>

\* C14: in spreadAllSetsInBatch and in interpAllSetsInBatch alike, the loop
\* over the sets of a batch runs on one thread when the threading option is
\* 1 and with nSetsThisBatch outer threads when it is 2 (a num_threads of 0
\* is counted as one thread, as the comments of lines 262-264 mean it).
OuterCount(n) == IF n = 0 THEN 1 ELSE n

C14_ThreadingClaim ==
  (pc \in {"spread", "interp"}) =>
    /\ p.spread_scheme = 1 => OuterCount(n_outerThreads) = 1
    /\ p.spread_scheme = 2 => OuterCount(n_outerThreads) = nSetsThisBatch

\* C15 as stated: for types 1 and 2, once the fine-grid sizes are accepted
\* and phiHat is allocated, finufft_makeplan returns ERR_MAXNALLOC whenever
\* nf1*nf2*nf3 times the plan's blksize exceeds MAX_NF (unless the
\* allocation of fw fails), and then fw is not allocated and no FFT is
\* planned.
SizeChecked == /\ ret.call = "makeplan" /\ ret.type \in {1, 2}
               /\ "phiHat" \in written /\ p.phiHat # NULL

NoFwNoFft == /\ "fw" \notin written /\ "fftwPlan" \notin written
             /\ LiveKinds(heap) \cap {"fw", "fftwPlan"} = {}

C15_Original ==
  (SizeChecked /\ ret.code # ERR_ALLOC
   /\ p.nf1 * p.nf2 * p.nf3 * p.blksize > MAX_NF) =>
    (ret.code = ERR_MAXNALLOC /\ NoFwNoFft)

\* C15 (amended): under the same conditions the call returns ERR_MAXNALLOC
\* exactly when nf1*nf2*nf3 times min(blksize, n_transf), the number of
\* slabs fw would get, exceeds MAX_NF, and then fw is not allocated and no
\* FFT is planned.
C15_MaxNfCheck ==
  SizeChecked =>
    /\ ret.code = ERR_MAXNALLOC
         <=> p.nf1 * p.nf2 * p.nf3 * min(p.blksize, p.n_transf) > MAX_NF
    /\ ret.code = ERR_MAXNALLOC => NoFwNoFft

C15_Witness ==
  /\ SizeChecked /\ ret.code = ERR_MAXNALLOC /\ p.dim = 3
  /\ p.blksize = 2 /\ p.n_transf = 3 /\ NoFwNoFft

\* C16: in a type 3 finufft_exec the inner plan's n_transf, once this code
\* has stored it, equals nSetsThisBatch of the batch whose inner finufft_exec
\* has just run, in every batch of every call.
C16_InnerNTransfClaim ==
  (pc = "t3deconv" /\ innerNTransf # WILD) => innerNTransf = nSetsThisBatch

\* C17: after a finufft_makeplan that returned 0, the mode count and the
\* fine-grid size of every dimension above dim are 1, whatever the caller's
\* array holds beyond its first dim entries, and for a type 3 plan ms, mt,
\* mu, nf1, nf2, nf3 are all 1.
C17_UnusedDimsOne ==
  (phase \notin {"new", "failed"}) =>
    /\ p.dim < 2 => p.mt = 1 /\ p.nf2 = 1
    /\ p.dim < 3 => p.mu = 1 /\ p.nf3 = 1
    /\ p.type = 3 => /\ p.ms = 1 /\ p.mt = 1 /\ p.mu = 1
                     /\ p.nf1 = 1 /\ p.nf2 = 1 /\ p.nf3 = 1

C17_Witness ==
  /\ ret.call = "makeplan" /\ ret.code = 0 /\ p.type = 1 /\ p.dim = 1
  /\ ret.n_modes = <<2, 5, 5>>
  /\ p.ms = 2 /\ p.mt = 1 /\ p.mu = 1 /\ p.nf1 = 4 /\ p.nf2 = 1 /\ p.nf3 = 1

\* C18: phiHat is allocated with the sum over the used dimensions of
\* nf_d/2 + 1 coefficients; finufft_makeplan fills dimension 1's piece from
\* offset 0, dimension 2's from nf1/2+1 and dimension 3's from
\* (nf1/2+1)+(nf2/2+1), each nf_d/2+1 long; the pieces do not overlap and lie
\* inside the allocation, and deconvolveInParallel looks for each
\* dimension's coefficients at the offset where its piece starts.
HalfLen(q, d) == (IF d = 1 THEN q.nf1 ELSE IF d = 2 THEN q.nf2 ELSE q.nf3) \div 2 + 1

C18_PhiHatLayout ==
  ("phiHat" \in written /\ IsLive(heap, p.phiHat)) =>
    LET a == heap[p.phiHat] IN
    /\ a.len = SumSeq([d \in 1..p.dim |-> HalfLen(p, d)])
    /\ Len(a.segs) = p.dim
    /\ a.segs[1].lo = 0
    /\ \A d \in 1..p.dim :
         /\ a.segs[d].hi - a.segs[d].lo = HalfLen(p, d)
         /\ a.segs[d].lo >= 0 /\ a.segs[d].hi <= a.len
         /\ d > 1 => a.segs[d].lo = a.segs[d - 1].hi
         /\ PhiHatRead(p, d) = a.segs[d].lo
    /\ \A d, e \in 1..p.dim :
         d # e => (a.segs[d].hi <= a.segs[e].lo \/ a.segs[e].hi <= a.segs[d].lo)

C18_Witness ==
  /\ pc = "deconv" /\ pending = {} /\ p.dim = 3
  /\ p.nf1 = 4 /\ p.nf2 = 6 /\ p.nf3 = 4
  /\ heap[p.phiHat].segs = <<[lo |-> 0, hi |-> 3], [lo |-> 3, hi |-> 7],
                             [lo |-> 7, hi |-> 10]>>

\* C19: for a type 1 or 2 plan, fw holds min(blksize, n_transf) slabs of
\* nf1*nf2*nf3 elements, the FFT is planned on exactly these slabs, one after
\* the other, and in every batch of finufft_exec nSetsThisBatch is at most
\* min(blksize, n_transf), so that the slab of every set of the batch, and
\* every slab written, lies inside fw.
C19_SlabsInsideFw ==
  (phase = "planned" /\ p.type \in {1, 2}) =>
    LET nfTotal == p.nf1 * p.nf2 * p.nf3
        nSlabs  == min(p.blksize, p.n_transf)
    IN  /\ IsLive(heap, p.fw) /\ IsLive(heap, p.fftwPlan)
        /\ heap[p.fw].len = nSlabs * nfTotal
        /\ heap[p.fftwPlan].segs = FftSlabs(nSlabs, nfTotal)
        /\ pc # "idle" =>
             /\ nSetsThisBatch <= nSlabs
             /\ \A i \in Sets(nSetsThisBatch) :
                  FwSlab(p, i).lo >= 0 /\ FwSlab(p, i).hi <= heap[p.fw].len
             /\ \A a \in wr :
                  a.what = "fw" => a.lo >= 0 /\ a.hi <= heap[p.fw].len

C19_Witness ==
  /\ phase = "planned" /\ p.type = 1 /\ pc = "spread" /\ pending = {}
  /\ p.n_transf = 3 /\ p.blksize = 2 /\ batchNum = 0 /\ p.dim = 2
  /\ heap[p.fw].len = 32
  /\ \E a \in wr : a.what = "fw" /\ a.lo = 16 /\ a.hi = 32

\* C20: on every plan finufft_makeplan returned 0 for, whatever blksize the
\* caller gave, the batch loop of finufft_exec ends: its test is false at
\* the latest when batchNum has reached n_transf.
C20_TerminationClaim ==
  (pc = "loop" /\ batchNum >= p.n_transf) => ~LoopTest(p, batchNum)

\* C21: when finufft_destroy runs on a plan finufft_makeplan returned 0 for,
\* with no finufft_setpts before it (types 1 and 2) or on a type 3 plan,
\* every pointer it hands to a release (FFT plan, fw, phiHat, sort index) is
\* a field some call has assigned: it frees no field that was never written.
C21_DestroyHoldsClaim ==
  (/\ "type" \in written /\ nDestroy > 0
   /\ p.type = 3 \/ nSetPts = 0) =>
    \A k \in 1..Len(released) :
      released[k].call = 1 => released[k].res \in written

\* C22: after any sequence of finufft_setpts calls on a type 1 or 2 plan at
\* most one sort-index array is allocated, the one p->sortIndices points to
\* after a finufft_setpts that returned 0; after finufft_destroy none is.
LiveOf(kind) == {i \in 1..Len(heap) : heap[i].live /\ heap[i].kind = kind}

C22_OneSortIndexClaim ==
  ("type" \in written /\ p.type \in {1, 2}) =>
    /\ Cardinality(LiveOf("sortIndices")) <= 1
    /\ (phase = "planned" /\ ret.call = "setpts" /\ ret.code = 0)
         => LiveOf("sortIndices") = {p.sortIndices}
    /\ phase = "destroyed" => LiveOf("sortIndices") = {}

\* C23: after any sequence of finufft_setpts calls on a type 1 or 2 plan,
\* calls that fail the point check included, the point state is consistent:
\* the sort-index array the plan points to is allocated and p->nj is its
\* length, the length for which X, Y, Z were bound in the same call; a
\* finufft_exec that follows reads no index beyond the array. The formula
\* states the part a failed call can break into an out-of-range read: nj is
\* not greater than the length of the array.
C23_PointStateClaim ==
  (p.type \in {1, 2} /\ phase = "planned" /\ p.X = "xj") =>
    /\ IsLive(heap, p.sortIndices)
    /\ heap[p.sortIndices].kind = "sortIndices"
    /\ p.nj <= heap[p.sortIndices].len

\* C24: on every return of finufft_exec, the return of a spread error and
\* the return on a failed allocation included, the scratch arrays the call
\* allocated for itself (the per-set error codes, and for type 3 the
\* rephased weights) have been released.
C24_ScratchReleasedClaim ==
  (pc = "idle" /\ ret.call = "exec") =>
    /\ LiveOf("ier_spreads") = {}
    /\ LiveOf("cpj") = {}

====
